---- MODULE Spec2Model ----
(***************************************************************************)
(* A model of the byte queue of bq.h: a single-producer / single-consumer  *)
(* lock-free ring of bytes with unwrapped cursors and a power-of-two       *)
(* capacity, together with the producer and consumer loops of test.c that  *)
(* drive it.  size_t is modelled as an unsigned integer of WordBits bits,  *)
(* so every cursor operation is taken modulo 2^WordBits.                   *)
(*                                                                         *)
(* Atomic acquire loads and release stores are modelled as single steps of *)
(* an interleaving of the two threads; the byte stores of memcpy and the   *)
(* byte loads of the consumer's checking loop are separate steps.          *)
(***************************************************************************)
EXTENDS Integers, Naturals, Sequences, FiniteSets, TLC

(* ------------------------------ bounds -------------------------------- *)

\* width of size_t in the model (64 in the build)
WordBits == 4
\* largest buffer length handed to bq_make by the driver (QUEUE_SIZE)
MaxLen == 8
\* largest chunk of one driver operation (MAX_BYTES_PER_OP)
MaxBytesPerOp == 3
\* bytes the driver moves beyond the point where the cursors wrap
ExtraBytes == 4

(* ------------------------- unsigned arithmetic ------------------------ *)

WordMod == 2 ^ WordBits

\* the value of an integer expression stored in a size_t
Wrap(x) == ((x % WordMod) + WordMod) % WordMod

RECURSIVE Shr(_, _)
\* x >> k on an unsigned value
Shr(x, k) == IF k = 0 \/ x = 0 THEN x ELSE Shr(x \div 2, k - 1)

RECURSIVE BitAnd(_, _)
\* a & b on unsigned values
BitAnd(a, b) ==
    IF a = 0 \/ b = 0 THEN 0
    ELSE (a % 2) * (b % 2) + 2 * BitAnd(a \div 2, b \div 2)

\* (uint8_t) x
Byte(x) == x % 256

MIN(a, b) == IF a < b THEN a ELSE b

\* bytes moved through the queue by the driver (BYTES_TO_PRODUCE), enough to
\* carry both cursors past the largest value of size_t
BytesToProduce == WordMod + ExtraBytes

(* ------------------------------ the queue ----------------------------- *)

NULL == "NULL"
Buf == "buf"

\* one "if (len >> k) { len >>= k; msb += k; }" line of bq_make
MsbStep(st, k) ==
    IF Shr(st.len, k) # 0
    THEN [len |-> Shr(st.len, k), msb |-> st.msb + k]
    ELSE st

\* Msb without the last line of the search, "if (len >> 1) msb += 1"
Msb_noLastStep(len) ==
    LET s0 == [len |-> len, msb |-> 0]
        s1 == MsbStep(s0, 32)
        s2 == MsbStep(s1, 16)
        s3 == MsbStep(s2, 8)
        s4 == MsbStep(s3, 4)
        s5 == MsbStep(s4, 2)
    IN  s5.msb

\* the position of the most significant set bit of len, as bq_make finds it
Msb(len) ==
    LET s0 == [len |-> len, msb |-> 0]
        s1 == MsbStep(s0, 32)
        s2 == MsbStep(s1, 16)
        s3 == MsbStep(s2, 8)
        s4 == MsbStep(s3, 4)
        s5 == MsbStep(s4, 2)
    IN  IF Shr(s5.len, 1) # 0 THEN s5.msb + 1 ELSE s5.msb

bq_make(buf, len) ==
    IF buf = NULL \/ len = 0
    THEN [head |-> 0, tail |-> 0, mask |-> 0, cap_lg2 |-> 0, data |-> NULL]
    ELSE LET msb == Msb(len)
         IN  [head |-> 0, tail |-> 0, mask |-> Wrap(2 ^ msb - 1),
              cap_lg2 |-> msb, data |-> buf]

\* cond without the final "& 0x1"
bq_cond_noMask(cap_lg2, head, tail) ==
    Wrap(Shr(tail, cap_lg2) - Shr(head, cap_lg2))

\* cond taken from a comparison of the two block numbers
bq_cond_greater(cap_lg2, head, tail) ==
    IF Shr(tail, cap_lg2) > Shr(head, cap_lg2) THEN 1 ELSE 0

\* the cond variable of bq_popbuf and bq_pushbuf
bq_cond(cap_lg2, head, tail) ==
    BitAnd(Wrap(Shr(tail, cap_lg2) - Shr(head, cap_lg2)), 1)

\* bq_popbuf with the sense of cond inverted
bq_popbuf_len_condInverted(bq, tail) ==
    LET cond == BitAnd(Wrap(Shr(tail, bq.cap_lg2) - Shr(bq.head, bq.cap_lg2)), 1)
    IN  Wrap(tail - bq.head - BitAnd(tail, bq.mask) * (1 - cond))

\* bq_popbuf subtracting tail instead of tail & mask
bq_popbuf_len_noOffsetMask(bq, tail) ==
    LET cond == BitAnd(Wrap(Shr(tail, bq.cap_lg2) - Shr(bq.head, bq.cap_lg2)), 1)
    IN  Wrap(tail - bq.head - tail * cond)

\* bq_popbuf that never cuts the run at the end of the storage
bq_popbuf_len_uncut(bq, tail) == Wrap(tail - bq.head)

\* bq_popbuf measuring the run up to the end of the storage only
bq_popbuf_len_toEnd(bq, tail) ==
    Wrap(bq.mask + 1 - BitAnd(bq.head, bq.mask))

\* bq_popbuf taking the distance of the cursors modulo the capacity
bq_popbuf_len_masked(bq, tail) ==
    MIN(BitAnd(Wrap(tail - bq.head), bq.mask),
        bq.mask + 1 - BitAnd(bq.head, bq.mask))

\* bq_popbuf taking cond from the cursors without the shifts by cap_lg2
bq_popbuf_len_condUnshifted(bq, tail) ==
    LET cond == BitAnd(Wrap(tail - bq.head), 1)
    IN  Wrap(tail - bq.head - BitAnd(tail, bq.mask) * cond)

\* *len of bq_popbuf, given the tail value it loaded
bq_popbuf_len(bq, tail) ==
    LET cond == bq_cond(bq.cap_lg2, bq.head, tail)
    IN  Wrap(tail - bq.head - BitAnd(tail, bq.mask) * cond)

\* bq_popbuf indexing data with the unwrapped cursor
bq_popbuf_off_unmasked(bq) == bq.head

\* the offset into data of the pointer bq_popbuf returns
bq_popbuf_off(bq) == BitAnd(bq.head, bq.mask)

\* a bq_pop that rewinds both cursors when the ring becomes empty
bq_pop_rewinding(bq, count) ==
    IF Wrap(bq.head + count) = bq.tail
    THEN [bq EXCEPT !.head = 0, !.tail = 0]
    ELSE [bq EXCEPT !.head = Wrap(bq.head + count)]

\* a bq_pop that stores head reduced to an offset into the storage
bq_pop_masked(bq, count) ==
    [bq EXCEPT !.head = BitAnd(Wrap(bq.head + count), bq.mask)]

\* bq_pop(q, count)
bq_pop(bq, count) == [bq EXCEPT !.head = Wrap(bq.head + count)]

\* bq_pushbuf with the sense of cond inverted
bq_pushbuf_len_condInverted(bq, head) ==
    LET cond == BitAnd(Wrap(Shr(bq.tail, bq.cap_lg2) - Shr(head, bq.cap_lg2)), 1)
    IN  Wrap(bq.mask + 1 - Wrap(bq.tail - head)
             - BitAnd(head, bq.mask) * cond)

\* bq_pushbuf reporting all the free bytes, contiguous or not
bq_pushbuf_len_freeSpace(bq, head) ==
    Wrap(bq.mask + 1 - Wrap(bq.tail - head))

\* bq_pushbuf measuring the run up to the end of the storage only
bq_pushbuf_len_toEnd(bq, head) ==
    Wrap(bq.mask + 1 - BitAnd(bq.tail, bq.mask))

\* bq_pushbuf taking the distance of the cursors modulo the capacity
bq_pushbuf_len_masked(bq, head) ==
    MIN(BitAnd(Wrap(head - bq.tail), bq.mask),
        bq.mask + 1 - BitAnd(bq.tail, bq.mask))

\* bq_pushbuf starting from mask instead of mask + 1
bq_pushbuf_len_offByOne(bq, head) ==
    LET cond == BitAnd(Wrap(Shr(bq.tail, bq.cap_lg2) - Shr(head, bq.cap_lg2)), 1)
    IN  Wrap(bq.mask - Wrap(bq.tail - head)
             - BitAnd(head, bq.mask) * (1 - cond))

\* bq_pushbuf subtracting the offset of tail instead of the offset of head
bq_pushbuf_len_tailOffset(bq, head) ==
    LET cond == BitAnd(Wrap(Shr(bq.tail, bq.cap_lg2) - Shr(head, bq.cap_lg2)), 1)
    IN  Wrap(bq.mask + 1 - Wrap(bq.tail - head)
             - BitAnd(bq.tail, bq.mask) * (1 - cond))

\* *len of bq_pushbuf, given the head value it loaded
bq_pushbuf_len(bq, head) ==
    LET cond == bq_cond(bq.cap_lg2, head, bq.tail)
    IN  Wrap(bq.mask + 1 - Wrap(bq.tail - head)
             - BitAnd(head, bq.mask) * (1 - cond))

\* bq_pushbuf indexing data with the unwrapped cursor
bq_pushbuf_off_unmasked(bq) == bq.tail

\* the offset into data of the pointer bq_pushbuf returns
bq_pushbuf_off(bq) == BitAnd(bq.tail, bq.mask)

\* a bq_push that stores tail reduced to an offset into the storage
bq_push_masked(bq, count) ==
    [bq EXCEPT !.tail = BitAnd(Wrap(bq.tail + count), bq.mask)]

\* a bq_push that commits no more than the free bytes of the ring
bq_push_clamping(bq, count) ==
    [bq EXCEPT !.tail =
        Wrap(bq.tail + MIN(count, bq.mask + 1 - Wrap(bq.tail - bq.head)))]

\* bq_push(q, count)
bq_push(bq, count) == [bq EXCEPT !.tail = Wrap(bq.tail + count)]

(* ------------------- the queue of others/lfq.h ------------------------ *)

\* *len of lfq_queue_get_push_buf, given the head value it read
lfq_queue_get_push_buf_len(lfq, head) ==
    LET head_n_wrap == head \div lfq.size
        tail_n_wrap == lfq.tail \div lfq.size
    IN  IF head_n_wrap = tail_n_wrap
        THEN Wrap(lfq.size - (lfq.tail % lfq.size))
        ELSE Wrap(lfq.size - Wrap(lfq.tail - head))

\* the offset into data of the pointer lfq_queue_get_push_buf returns
lfq_queue_get_push_buf_off(lfq) == lfq.tail % lfq.size

\* *len of lfq_queue_get_pop_buf, given the tail value it read
lfq_queue_get_pop_buf_len(lfq, tail) ==
    LET head_n_wrap == lfq.head \div lfq.size
        tail_n_wrap == tail \div lfq.size
    IN  IF head_n_wrap = tail_n_wrap
        THEN Wrap(tail - lfq.head)
        ELSE Wrap(tail - lfq.head - (tail % lfq.size))

\* the offset into data of the pointer lfq_queue_get_pop_buf returns
lfq_queue_get_pop_buf_off(lfq) == lfq.head % lfq.size

(* ------------------- the queue of others/vbq.h ------------------------ *)

\* the abq that abq_queue_init leaves for a buffer of size bytes
abq_queue_init(size) == [head |-> 0, tail |-> 0, nelem |-> 0, size |-> size]

\* *len of abq_queue_get_push_buf
abq_queue_get_push_buf_len(abq) ==
    IF abq.head < abq.tail \/ abq.nelem = 0
    THEN Wrap(abq.size - abq.tail)
    ELSE Wrap(abq.head - abq.tail)

\* the offset into data of the pointer abq_queue_get_push_buf returns
abq_queue_get_push_buf_off(abq) == abq.tail

\* abq_queue_commit_push(q, len)
abq_queue_commit_push(abq, len) ==
    [abq EXCEPT !.tail = Wrap(abq.tail + len) % abq.size,
                !.nelem = Wrap(abq.nelem + len)]

\* *len of abq_queue_get_pop_buf
abq_queue_get_pop_buf_len(abq) ==
    IF abq.head < abq.tail \/ abq.nelem = 0
    THEN Wrap(abq.tail - abq.head)
    ELSE Wrap(abq.size - abq.head)

\* the offset into data of the pointer abq_queue_get_pop_buf returns
abq_queue_get_pop_buf_off(abq) == abq.head

\* abq_queue_commit_pop(q, len)
abq_queue_commit_pop(abq, len) ==
    [abq EXCEPT !.head = Wrap(abq.head + len) % abq.size,
                !.nelem = Wrap(abq.nelem - len)]

(* ------------------------------- state -------------------------------- *)

VARIABLES
    arg_buf,        \* the buffer argument of bq_make
    arg_len,        \* the length argument of bq_make
    q,              \* the bq structure
    mem,            \* the bytes of the buffer, by offset
    prod,           \* the producer thread: position and locals
    cons,           \* the consumer thread: position and locals
    prod_finished,  \* the flag of test.c
    produced,       \* history: the bytes committed by bq_push, in order
    consumed        \* history: the bytes read by the consumer, in order

vars == <<arg_buf, arg_len, q, mem, prod, cons, prod_finished,
          produced, consumed>>

\* a byte of the buffer that was never written
Uninit == -1
\* what a read of an unwritten or out-of-range byte may yield
GarbageBytes == {0, 255}

\* the values a read of the byte at offset off can produce
MemRead(off) ==
    IF off \in DOMAIN mem /\ mem[off] # Uninit THEN {mem[off]} ELSE GarbageBytes

\* the buffer after a store of byte b at offset off
MemWrite(off, b) ==
    IF off \in DOMAIN mem THEN [mem EXCEPT ![off] = b] ELSE mem

\* the state after "bq_queue = bq_make(buf, len)" and before the threads run
Made(buf, len) ==
    /\ arg_buf = buf
    /\ arg_len = len
    /\ q = bq_make(buf, len)
    /\ mem = [o \in 0 .. ((IF buf = NULL THEN 0 ELSE len) - 1) |-> Uninit]
    /\ prod = [pc |-> "pushbuf", remaining |-> BytesToProduce, head |-> 0,
               len |-> 0, off |-> 0, count |-> 0, i |-> 0]
    /\ cons = [pc |-> "popbuf", remaining |-> BytesToProduce, tail |-> 0,
               len |-> 0, off |-> 0, count |-> 0, i |-> 0]
    /\ prod_finished = FALSE
    /\ produced = <<>>
    /\ consumed = <<>>

\* main of test.c: the queue is made on a non-null buffer
Init == \E len \in 1 .. MaxLen : Made(Buf, len)

\* bq_make on any buffer argument and any length a size_t can hold
MakeInit ==
    \E buf \in {NULL, Buf} : \E len \in 0 .. (WordMod - 1) : Made(buf, len)

\* a queue whose cursors have reached any pair of values that a run of
\* commits within the returned lengths can bring them to
CursorInit ==
    \E len \in 1 .. (WordMod - 1) : \E head \in 0 .. (WordMod - 1) :
      \E used \in 0 .. (bq_make(Buf, len).mask + 1) :
        /\ arg_buf = Buf
        /\ arg_len = len
        /\ q = [bq_make(Buf, len) EXCEPT !.head = head,
                                        !.tail = Wrap(head + used)]
        /\ mem = [o \in 0 .. (len - 1) |-> Uninit]
        /\ prod = [pc |-> "pushbuf", remaining |-> BytesToProduce,
                   head |-> 0, len |-> 0, off |-> 0, count |-> 0, i |-> 0]
        /\ cons = [pc |-> "popbuf", remaining |-> BytesToProduce,
                   tail |-> 0, len |-> 0, off |-> 0, count |-> 0, i |-> 0]
        /\ prod_finished = FALSE
        /\ produced = <<>>
        /\ consumed = <<>>

(* ------------------------------ producer ------------------------------ *)

\* bytes[i] of the producer's block
ProdByte(i) == Byte(prod.remaining - i)

\* *len as the producer's call of bq_pushbuf sets it in the current state
Pushable == bq_pushbuf_len(q, q.head)

\* a bq_pushbuf that reserves the bytes by moving tail at once
Pushbuf_reserving(counts) ==
    /\ prod.pc = "pushbuf"
    /\ \E count \in counts :
         /\ prod' = [prod EXCEPT !.pc = "memcpy", !.head = q.head,
                                  !.len = Pushable,
                                  !.off = bq_pushbuf_off(q),
                                  !.count = 0, !.i = 0]
         /\ q' = bq_push(q, count)
    /\ UNCHANGED <<arg_buf, arg_len, mem, cons, prod_finished,
                   produced, consumed>>

\* bq_pushbuf followed by the choice of count among counts
Pushbuf(counts) ==
    /\ prod.pc = "pushbuf"
    /\ \E count \in counts :
         prod' = [prod EXCEPT !.pc = "memcpy", !.head = q.head,
                              !.len = Pushable,
                              !.off = bq_pushbuf_off(q),
                              !.count = count, !.i = 0]
    /\ UNCHANGED <<arg_buf, arg_len, q, mem, cons, prod_finished,
                   produced, consumed>>

\* any client that honours the contract of bq_push: count <= returned len
ClientPushCounts == 0 .. MIN(prod.remaining, Pushable)

\* the producer of test.c
DriverPushCounts == {MIN(MIN(MaxBytesPerOp, prod.remaining), Pushable)}

\* a caller that asks for the slice and commits nothing
NoCounts == {0}

producer_pushbuf == Pushbuf(ClientPushCounts)

producer_thread_pushbuf == Pushbuf(DriverPushCounts)

query_pushbuf == Pushbuf(NoCounts)

\* bq_pushbuf called again by a producer that has not yet written a byte
requery_pushbuf ==
    /\ prod.pc = "memcpy"
    /\ prod.i = 0
    /\ \E count \in ClientPushCounts :
         prod' = [prod EXCEPT !.head = q.head,
                              !.len = Pushable,
                              !.off = bq_pushbuf_off(q),
                              !.count = count]
    /\ UNCHANGED <<arg_buf, arg_len, q, mem, cons, prod_finished,
                   produced, consumed>>

\* one byte store of memcpy(addr, bytes, count)
producer_memcpy ==
    /\ prod.pc = "memcpy"
    /\ prod.i < prod.count
    /\ mem' = MemWrite(prod.off + prod.i, ProdByte(prod.i))
    /\ prod' = [prod EXCEPT !.i = prod.i + 1]
    /\ UNCHANGED <<arg_buf, arg_len, q, cons, prod_finished,
                   produced, consumed>>

\* a producer whose store of tail may overtake its stores of the bytes
producer_push_early ==
    /\ prod.pc = "memcpy"
    /\ q' = bq_push(q, prod.count)
    /\ produced' = produced \o [k \in 1 .. prod.count |-> ProdByte(k - 1)]
    /\ prod' = [prod EXCEPT
                  !.remaining = prod.remaining - prod.count,
                  !.pc = IF prod.remaining - prod.count > 0
                         THEN "pushbuf" ELSE "finish"]
    /\ UNCHANGED <<arg_buf, arg_len, mem, cons, prod_finished, consumed>>

\* bq_push(&bq_queue, count); bq_remaining -= count; and the loop test
producer_push ==
    /\ prod.pc = "memcpy"
    /\ prod.i = prod.count
    /\ q' = bq_push(q, prod.count)
    /\ produced' = produced \o [k \in 1 .. prod.count |-> ProdByte(k - 1)]
    /\ prod' = [prod EXCEPT
                  !.remaining = prod.remaining - prod.count,
                  !.pc = IF prod.remaining - prod.count > 0
                         THEN "pushbuf" ELSE "finish"]
    /\ UNCHANGED <<arg_buf, arg_len, mem, cons, prod_finished, consumed>>

\* __atomic_store_n(&prod_finished, true, __ATOMIC_RELEASE)
producer_finish ==
    /\ prod.pc = "finish"
    /\ prod_finished' = TRUE
    /\ prod' = [prod EXCEPT !.pc = "done"]
    /\ UNCHANGED <<arg_buf, arg_len, q, mem, cons, produced, consumed>>

(* ------------------------------ consumer ------------------------------ *)

\* *len as the consumer's call of bq_popbuf sets it in the current state
Poppable == bq_popbuf_len(q, q.tail)

\* bq_popbuf followed by the choice of count among counts
Popbuf(counts) ==
    /\ cons.pc = "popbuf"
    /\ \E count \in counts :
         cons' = [cons EXCEPT !.pc = "check", !.tail = q.tail,
                              !.len = Poppable,
                              !.off = bq_popbuf_off(q),
                              !.count = count, !.i = 0]
    /\ UNCHANGED <<arg_buf, arg_len, q, mem, prod, prod_finished,
                   produced, consumed>>

\* any client that honours the contract of bq_pop
ClientPopCounts == 0 .. MIN(Poppable, cons.remaining)

\* the consumer of test.c
DriverPopCounts == {MIN(MIN(Poppable, cons.remaining), MaxBytesPerOp)}

consumer_popbuf == Popbuf(ClientPopCounts)

consumer_thread_popbuf == Popbuf(DriverPopCounts)

query_popbuf == Popbuf(NoCounts)

\* bq_popbuf called again by a consumer that has not yet read a byte
requery_popbuf ==
    /\ cons.pc = "check"
    /\ cons.i = 0
    /\ \E count \in ClientPopCounts :
         cons' = [cons EXCEPT !.tail = q.tail,
                              !.len = Poppable,
                              !.off = bq_popbuf_off(q),
                              !.count = count]
    /\ UNCHANGED <<arg_buf, arg_len, q, mem, prod, prod_finished,
                   produced, consumed>>

\* one round of "assert(addr[i] == (uint8_t)(bq_remaining--))"
consumer_check ==
    /\ cons.pc = "check"
    /\ cons.i < cons.count
    /\ \E b \in MemRead(cons.off + cons.i) :
         /\ consumed' = Append(consumed, b)
         /\ cons' = [cons EXCEPT
                       !.i = cons.i + 1,
                       !.remaining = cons.remaining - 1,
                       !.pc = IF b = Byte(cons.remaining)
                              THEN "check" ELSE "abort"]
    /\ UNCHANGED <<arg_buf, arg_len, q, mem, prod, prod_finished, produced>>

\* bq_pop(&bq_queue, count) and the test of bq_remaining
consumer_pop ==
    /\ cons.pc = "check"
    /\ cons.i = cons.count
    /\ q' = bq_pop(q, cons.count)
    /\ cons' = [cons EXCEPT !.pc = IF cons.remaining > 0
                                   THEN "popbuf" ELSE "wait"]
    /\ UNCHANGED <<arg_buf, arg_len, mem, prod, prod_finished,
                   produced, consumed>>

\* the consumer leaves its loop once the producer has finished
consumer_exit ==
    /\ cons.pc = "wait"
    /\ prod_finished
    /\ cons' = [cons EXCEPT !.pc = "done"]
    /\ UNCHANGED <<arg_buf, arg_len, q, mem, prod, prod_finished,
                   produced, consumed>>

(* ------------------- callers outside the contract --------------------- *)

\* the values a size_t argument can take
AnyCounts == 0 .. (WordMod - 1)

\* the last bq_push(&bq_queue, count) of a caller that passes any count
any_push ==
    /\ prod.pc = "memcpy"
    /\ \E count \in AnyCounts :
         /\ q' = bq_push(q, count)
         /\ prod' = [prod EXCEPT !.count = count, !.pc = "finish"]
    /\ UNCHANGED <<arg_buf, arg_len, mem, cons, prod_finished,
                   produced, consumed>>

\* the last bq_pop(&bq_queue, count) of a caller that passes any count
any_pop ==
    /\ cons.pc = "check"
    /\ \E count \in AnyCounts :
         /\ q' = bq_pop(q, count)
         /\ cons' = [cons EXCEPT !.count = count, !.pc = "wait"]
    /\ UNCHANGED <<arg_buf, arg_len, mem, prod, prod_finished,
                   produced, consumed>>

(* --------------------------- specifications --------------------------- *)

Next ==
    \/ producer_pushbuf
    \/ producer_memcpy
    \/ producer_push
    \/ producer_finish
    \/ consumer_popbuf
    \/ consumer_check
    \/ consumer_pop
    \/ consumer_exit

\* one producer and one consumer, each honouring the commit contract
Spec == Init /\ [][Next]_vars

ProducerNext ==
    \/ producer_thread_pushbuf
    \/ producer_memcpy
    \/ producer_push
    \/ producer_finish

ConsumerNext ==
    \/ consumer_thread_popbuf
    \/ consumer_check
    \/ consumer_pop
    \/ consumer_exit

DriverNext == ProducerNext \/ ConsumerNext

\* the two threads of test.c, each of which keeps running
DriverSpec ==
    Init /\ [][DriverNext]_vars /\ WF_vars(ProducerNext) /\ WF_vars(ConsumerNext)

QueryNext ==
    \/ query_pushbuf
    \/ producer_push
    \/ query_popbuf
    \/ consumer_pop

\* bq_make followed by calls of bq_pushbuf and bq_popbuf
MakeSpec == MakeInit /\ [][QueryNext]_vars

\* bq_pushbuf and bq_popbuf called at every pair of cursors
CursorSpec == CursorInit /\ [][QueryNext]_vars

RequeryNext ==
    \/ Next
    \/ requery_pushbuf
    \/ requery_popbuf

\* clients that may call bq_pushbuf and bq_popbuf more than once per commit
RequerySpec == Init /\ [][RequeryNext]_vars

\* a queue of main's sizes whose cursors a run has brought to any pair
MisuseInit == CursorInit /\ arg_len <= MaxLen

MisuseNext ==
    \/ query_pushbuf
    \/ any_push
    \/ query_popbuf
    \/ any_pop

\* callers whose last commit passes any count, whatever length was returned
MisuseSpec == MisuseInit /\ [][MisuseNext]_vars

(* ------------------------------ properties ---------------------------- *)

\* s is an initial segment of t
IsPrefix(s, t) == Len(s) <= Len(t) /\ SubSeq(t, 1, Len(s)) = s

\* the capacity of the ring
Capacity == q.mask + 1

\* the number of committed bytes not yet consumed: tail - head in size_t
Used == Wrap(q.tail - q.head)

\* the storage slots of the cursor range [head, tail)
CommittedSlots == {BitAnd(Wrap(q.head + j), q.mask) : j \in 0 .. (Used - 1)}

\* the producer holds a slice: after its bq_pushbuf, before its bq_push
ProdHeld == prod.pc = "memcpy"

\* the consumer holds a slice: after its bq_popbuf, before its bq_pop
ConsHeld == cons.pc \in {"check", "abort"}

\* the storage slots of the slice bq_pushbuf returned
ProdSlice == {prod.off + k : k \in 0 .. (prod.len - 1)}

\* the storage slots of the slice bq_popbuf returned
ConsSlice == {cons.off + k : k \in 0 .. (cons.len - 1)}

RECURSIVE FloorPow2(_)
\* the largest power of two that is <= n, for n >= 1
FloorPow2(n) == IF n < 2 THEN 1 ELSE 2 * FloorPow2(n \div 2)

RECURSIVE Log2(_)
\* the exponent of the power of two n
Log2(n) == IF n < 2 THEN 0 ELSE 1 + Log2(n \div 2)

\* C1: the bytes the consumer has read are at every moment an initial
\* segment of the bytes the producer has committed, in the same order, and
\* the consumer's check of each byte against the expected value never fails.
C1_Conservation ==
    /\ IsPrefix(consumed, produced)
    /\ cons.pc # "abort"

\* C1 witness: all the bytes went through a ring of capacity 8 in order,
\* the cursors having crossed the capacity boundary and the end of size_t.
C1_Witness ==
    /\ Capacity = 8
    /\ Len(consumed) = BytesToProduce
    /\ consumed = produced
    /\ cons.pc = "done"

\* C2: while the producer holds a slice returned by bq_pushbuf, its slots are
\* disjoint from the slots of the committed, unconsumed bytes [head, tail);
\* while the consumer holds a slice returned by bq_popbuf, its slots all lie
\* in that range; so the two held slices never share a slot.
C2_RegionExclusivity ==
    /\ ProdHeld => ProdSlice \cap CommittedSlots = {}
    /\ ConsHeld => ConsSlice \subseteq CommittedSlots
    /\ (ProdHeld /\ ConsHeld) => ProdSlice \cap ConsSlice = {}

\* C2 witness: both threads hold a non-empty slice of a ring that is neither
\* empty nor full, and the consumer's slice ends where the storage ends.
C2_Witness ==
    /\ ProdHeld /\ ConsHeld
    /\ prod.len > 0 /\ cons.len > 0
    /\ prod.i > 0 /\ cons.i > 0
    /\ cons.off + cons.len = Capacity
    /\ prod.off < cons.off

\* C3: tail - head, taken in size_t, is never larger than the capacity.
C3_I1 == Used \in 0 .. Capacity

\* C3 witness: the ring is full with tail wrapped past the end of size_t and
\* head not yet.
C3_Witness ==
    /\ Used = Capacity
    /\ Capacity > 1
    /\ q.tail < q.head

\* C4: the length a thread holds never exceeds what the current cursors
\* allow, whatever the other thread has done since the call, and nor does the
\* length a call made now would return.
C4_NoOverrun ==
    /\ ProdHeld => prod.len <= Capacity - Used
    /\ ConsHeld => cons.len <= Used
    /\ Pushable <= Capacity - Used
    /\ Poppable <= Used

\* C4 witness: the producer holds a slice while the consumer, having moved
\* head since the producer loaded it, holds a slice of its own.
C4_Witness ==
    /\ ProdHeld /\ ConsHeld
    /\ prod.head # q.head
    /\ prod.len > 0 /\ cons.len > 0
    /\ prod.len < Capacity - Used

\* C5: under the driver of test.c with both threads scheduled fairly, the
\* producer eventually has committed all the bytes, the consumer eventually
\* has consumed them all, and both threads leave their loops.
C5_Termination ==
    <>(/\ prod.pc = "done" /\ prod.remaining = 0
       /\ cons.pc = "done" /\ cons.remaining = 0)

\* C5 witness: both threads are done and every byte went through.
C5_Witness ==
    /\ prod.pc = "done" /\ cons.pc = "done"
    /\ Len(produced) = BytesToProduce
    /\ Len(consumed) = BytesToProduce
    /\ Capacity = 1

\* C6: made from a non-null buffer of length L >= 1, the ring has a capacity
\* that is the largest power of two <= L, and cap_lg2 is its logarithm.
C6_CapacityDerivation ==
    (arg_buf # NULL /\ arg_len >= 1) =>
        /\ Capacity = FloorPow2(arg_len)
        /\ Capacity <= arg_len
        /\ arg_len < 2 * Capacity
        /\ q.cap_lg2 = Log2(Capacity)
        /\ q.data = arg_buf

\* C6 witness: a length that is not a power of two was rounded down.
C6_Witness ==
    /\ arg_buf # NULL
    /\ arg_len = 13
    /\ Capacity = 8
    /\ q.cap_lg2 = 3

\* C7: on a ring made from a null buffer or from length 0, every bq_pushbuf
\* and every bq_popbuf reports length 0.
C7_DegenerateReportsZero ==
    (arg_buf = NULL \/ arg_len = 0) =>
        /\ ProdHeld => prod.len = 0
        /\ ConsHeld => cons.len = 0

\* C8: on a ring made from a non-null buffer of length L >= 1, before any
\* byte is committed, bq_popbuf reports 0 and bq_pushbuf reports the largest
\* power of two <= L.
C8_InitialState ==
    (arg_buf # NULL /\ arg_len >= 1 /\ produced = <<>> /\ consumed = <<>>) =>
        /\ ConsHeld => cons.len = 0
        /\ ProdHeld => (prod.len = FloorPow2(arg_len) /\ prod.len = Capacity)

\* C8 witness: both calls were made on a fresh ring of capacity 4.
C8_Witness ==
    /\ arg_buf # NULL /\ arg_len = 6
    /\ produced = <<>> /\ consumed = <<>>
    /\ ProdHeld /\ ConsHeld
    /\ prod.len = 4 /\ cons.len = 0

\* C9: bq_popbuf reports 0 exactly when the tail it loaded equals head, and
\* bq_pushbuf reports 0 exactly when tail minus the head it loaded equals
\* the capacity.
C9_EmptyFull ==
    /\ ConsHeld => (cons.len = 0 <=> cons.tail = q.head)
    /\ ProdHeld => (prod.len = 0 <=> Wrap(q.tail - prod.head) = Capacity)

\* C9 witness: the producer was told 0 on a full ring of capacity 4 whose
\* cursors have equal offsets, while the consumer holds a non-empty slice.
C9_Witness ==
    /\ Capacity = 4
    /\ ProdHeld /\ prod.len = 0
    /\ ConsHeld /\ cons.len > 0
    /\ BitAnd(q.tail, q.mask) = BitAnd(q.head, q.mask)

\* C10: bq_pushbuf reports the smaller of the free space and the distance
\* from the write position to the end of the storage, at offset tail & mask.
C10_PushbufResult ==
    ProdHeld =>
        /\ prod.len = MIN(Capacity - Wrap(q.tail - prod.head),
                          Capacity - BitAnd(q.tail, q.mask))
        /\ prod.off = BitAnd(q.tail, q.mask)
        /\ prod.off = q.tail % Capacity

\* C10 witness: the free space, not the end of the storage, limits the slice,
\* on a ring whose tail has wrapped past the end of size_t.
C10_Witness ==
    /\ ProdHeld
    /\ Capacity = 8
    /\ q.tail < q.head
    /\ prod.len > 0
    /\ prod.len < Capacity - BitAnd(q.tail, q.mask)

\* C11: bq_popbuf reports the smaller of the number of unread bytes and the
\* distance from the read position to the end of the storage: tail - head
\* when the cursors are in the same block of capacity bytes, and
\* tail - head - (tail & mask) otherwise; at offset head & mask.
C11_PopbufResult ==
    ConsHeld =>
        /\ cons.len = MIN(Wrap(cons.tail - q.head),
                          Capacity - BitAnd(q.head, q.mask))
        /\ cons.len = IF cons.tail \div Capacity = q.head \div Capacity
                      THEN Wrap(cons.tail - q.head)
                      ELSE Wrap(cons.tail - q.head) - (cons.tail % Capacity)
        /\ cons.off = q.head % Capacity

\* C11 witness: the end of the storage, not the number of unread bytes,
\* limits the slice, on a ring whose tail has wrapped past the end of size_t.
C11_Witness ==
    /\ ConsHeld
    /\ Capacity = 4
    /\ cons.tail < q.head
    /\ cons.len > 0
    /\ cons.len < Wrap(cons.tail - q.head)

\* a step in which the producer's call of bq_pushbuf returns
PushbufReturns ==
    /\ prod' # prod
    /\ prod'.pc = "memcpy"
    /\ \/ prod.pc = "pushbuf"
       \/ prod.pc = "memcpy" /\ prod'.i = prod.i

\* a step in which the consumer's call of bq_popbuf returns
PopbufReturns ==
    /\ cons' # cons
    /\ cons'.pc = "check"
    /\ \/ cons.pc = "popbuf"
       \/ cons.pc = "check" /\ cons'.i = cons.i

\* C12: a call of bq_pushbuf or bq_popbuf changes no field of the queue and
\* no byte of the storage, and a second call made while neither cursor has
\* moved since the first returns the same offset and the same length.
C12_PureQueries ==
    [][/\ (PushbufReturns \/ PopbufReturns) => (q' = q /\ mem' = mem)
       /\ (PushbufReturns /\ prod.pc = "memcpy" /\ prod.head = q.head) =>
              (prod'.len = prod.len /\ prod'.off = prod.off)
       /\ (PopbufReturns /\ cons.pc = "check" /\ cons.tail = q.tail) =>
              (cons'.len = cons.len /\ cons'.off = cons.off)]_vars

\* C12 witness: both threads hold the result of a call on a ring that is
\* neither empty nor full, and the results are those of a call made now.
C12_Witness ==
    /\ ProdHeld /\ ConsHeld
    /\ prod.i = 0 /\ cons.i = 0
    /\ Used > 0 /\ Used < Capacity
    /\ q.tail < q.head
    /\ prod.len = Pushable /\ prod.off = bq_pushbuf_off(q)
    /\ cons.len = Poppable /\ cons.off = bq_popbuf_off(q)

\* a step in which the producer's call of bq_push returns
PushReturns == prod.pc = "memcpy" /\ prod'.pc \in {"pushbuf", "finish"}

\* a step in which the consumer's call of bq_pop returns
PopReturns == cons.pc = "check" /\ cons'.pc \in {"popbuf", "wait"}

\* C13: bq_push(count) sets tail to tail + count in size_t and leaves head;
\* bq_pop(count) sets head to head + count in size_t and leaves tail; tail
\* changes in no other step, head in no other step, and no step changes
\* mask, cap_lg2 or the storage pointer.
C13_SingleWriter ==
    [][/\ q'.mask = q.mask /\ q'.cap_lg2 = q.cap_lg2 /\ q'.data = q.data
       /\ PushReturns => /\ q'.tail = (q.tail + prod.count) % WordMod
                         /\ q'.head = q.head
       /\ PopReturns => /\ q'.head = (q.head + cons.count) % WordMod
                        /\ q'.tail = q.tail
       /\ q'.tail # q.tail => PushReturns
       /\ q'.head # q.head => PopReturns]_vars

\* C13 witness: both cursors have been moved by commits, tail past the end
\* of size_t, on a ring of capacity 8.
C13_Witness ==
    /\ Capacity = 8
    /\ q.head > 0
    /\ q.tail < q.head
    /\ Len(produced) > WordMod
    /\ Len(consumed) > 0

\* tail is within one capacity of the largest value of size_t, or past it
NearWrap == Len(produced) >= WordMod - Capacity

\* C14: once the cursors are close to the largest value of size_t, and while
\* and after they cross from 2^w - 1 to 0, the bytes read are still an
\* initial segment of the bytes committed, tail - head is still within the
\* capacity, and bq_pushbuf and bq_popbuf still report the smaller of the
\* free (unread) bytes and the distance to the end of the storage.
C14_CursorOverflow ==
    NearWrap =>
        /\ IsPrefix(consumed, produced) /\ cons.pc # "abort"
        /\ Used <= Capacity
        /\ ProdHeld =>
             prod.len = MIN(Capacity - Wrap(q.tail - prod.head),
                            Capacity - (q.tail % Capacity))
        /\ ConsHeld =>
             cons.len = MIN(Wrap(cons.tail - q.head),
                            Capacity - (q.head % Capacity))

\* C14 witness: the consumer has read a whole slice that it was given when
\* tail had crossed the end of size_t and head had not, while the producer
\* holds a slice given in the same situation.
C14_Witness ==
    /\ NearWrap
    /\ ConsHeld /\ cons.tail < q.head
    /\ cons.len > 0 /\ cons.i = cons.len
    /\ ProdHeld /\ q.tail < prod.head
    /\ prod.len > 0
    /\ BitAnd(q.tail, q.mask) # 0

\* C15: on a ring of capacity 4 on which the producer has written three
\* bytes and committed 3, bq_popbuf reports length 3 at the three bytes
\* written; once the consumer has committed 2, bq_popbuf reports length 1
\* and bq_pushbuf reports length 1.
C15_Scenario ==
    (Capacity = 4 /\ Len(produced) = 3) =>
        /\ (ConsHeld /\ cons.tail = 3 /\ q.head = 0) =>
              /\ cons.len = 3
              /\ cons.off = 0
              /\ \A k \in 0 .. 2 : mem[cons.off + k] = produced[k + 1]
        /\ (ConsHeld /\ cons.tail = 3 /\ q.head = 2) =>
              /\ cons.len = 1
              /\ cons.off = 2
              /\ mem[cons.off] = produced[3]
        /\ (ProdHeld /\ prod.head = 2) =>
              /\ prod.len = 1
              /\ prod.off = 3

\* C15 witness: the end of the scenario: 3 bytes committed, 2 read and
\* committed, and both threads holding the result of their next call.
C15_Witness ==
    /\ arg_len = 4 /\ Capacity = 4
    /\ Len(produced) = 3 /\ Len(consumed) = 2
    /\ q.tail = 3 /\ q.head = 2
    /\ ConsHeld /\ cons.tail = 3 /\ cons.len = 1 /\ cons.i = 0
    /\ ProdHeld /\ prod.head = 2 /\ prod.len = 1

\* the number of bytes the consumer has committed with bq_pop
PoppedTotal ==
    Len(consumed) - (IF cons.pc \in {"check", "abort"} THEN cons.i ELSE 0)

\* the number of bytes below the head value the producer loaded
ObservedHeadTotal == Len(produced) - Wrap(q.tail - prod.head)

\* C16: while the consumer holds the tail value bq_popbuf loaded, every
\* unconsumed byte below that value is committed and lies stored in its
\* slot; while the producer holds the head value bq_pushbuf loaded, the
\* consumer has read every byte below that value, and every slot of the
\* producer's slice last held a byte below that value.
C16_PublicationOrdering ==
    /\ ConsHeld =>
         \A j \in 0 .. (Wrap(cons.tail - q.head) - 1) :
            /\ PoppedTotal + j + 1 <= Len(produced)
            /\ mem[BitAnd(Wrap(q.head + j), q.mask)]
                 = produced[PoppedTotal + j + 1]
    /\ ProdHeld =>
         /\ ObservedHeadTotal <= Len(consumed)
         /\ \A k \in 0 .. (prod.len - 1) :
               Len(produced) + k + 1 - Capacity <= ObservedHeadTotal

\* C16 witness: the consumer is reading a slice while the producer is in
\* the middle of its byte stores, some stored and none of them published.
C16_Witness ==
    /\ ConsHeld /\ cons.len > 1 /\ cons.i > 0 /\ cons.i < cons.count
    /\ ProdHeld /\ prod.i > 0 /\ prod.i < prod.count
    /\ q.tail < q.head

\* the storage slots that hold no committed, unconsumed byte
FreeSlots ==
    {BitAnd(Wrap(q.tail + j), q.mask) : j \in 0 .. (Capacity - Used - 1)}

\* C17: from bq_pushbuf to the producer's own bq_push, whatever the consumer
\* does, the producer's slice lies in the free slots, starts where a call
\* made now would start and is no longer than that call would report; from
\* bq_popbuf to the consumer's own bq_pop, whatever the producer does, the
\* consumer's slice lies in the committed unread slots, starts where a call
\* made now would start and is no longer than that call would report.
C17_StaleSnapshots ==
    /\ ProdHeld => /\ ProdSlice \subseteq FreeSlots
                   /\ prod.off = bq_pushbuf_off(q)
                   /\ prod.len <= Pushable
    /\ ConsHeld => /\ ConsSlice \subseteq CommittedSlots
                   /\ cons.off = bq_popbuf_off(q)
                   /\ cons.len <= Poppable

\* C17 witness: the producer is writing into a slice that has become
\* shorter than a call made now would report, the consumer having moved
\* head into the next block since the producer loaded it.
C17_Witness ==
    /\ ProdHeld
    /\ prod.head # q.head
    /\ prod.len > 0 /\ prod.len < Pushable
    /\ prod.i > 0
    /\ Capacity = 4

\* C17 witness, consumer side: the consumer is reading a slice that has
\* become shorter than a call made now would report.
C17_WitnessConsumer ==
    /\ ConsHeld
    /\ cons.tail # q.tail
    /\ cons.len > 0 /\ cons.len < Poppable
    /\ cons.i > 0

\* C18: no slice returned by bq_pushbuf or bq_popbuf goes past the end of
\* the storage: offset plus length is at most the capacity, which is at most
\* the length of the buffer.
C18_OneContiguousRun ==
    /\ Capacity <= arg_len
    /\ ProdHeld => BitAnd(q.tail, q.mask) + prod.len <= Capacity
    /\ ProdHeld => prod.off + prod.len <= arg_len
    /\ ConsHeld => BitAnd(q.head, q.mask) + cons.len <= Capacity
    /\ ConsHeld => cons.off + cons.len <= arg_len

\* C18 witness: the producer's slice stops at the end of the storage although
\* more bytes are free at its beginning.
C18_Witness ==
    /\ ProdHeld
    /\ prod.len > 0
    /\ prod.off + prod.len = Capacity
    /\ prod.len < Capacity - Used
    /\ Capacity = 8

\* C18 witness, consumer side: the consumer's slice stops at the end of the
\* storage although more unread bytes lie at its beginning.
C18_WitnessConsumer ==
    /\ ConsHeld
    /\ cons.len > 0
    /\ cons.off + cons.len = Capacity
    /\ cons.len < Used

\* an lfq of the size of the ring with the same head and tail
SameLfq == [head |-> q.head, tail |-> q.tail, size |-> Capacity]

\* C19: bq_pushbuf and bq_popbuf return the offset and the length that
\* lfq_queue_get_push_buf and lfq_queue_get_pop_buf compute with divisions
\* and an if, on an lfq of the same size with the same head and tail.
C19_BranchlessEqualsBranching ==
    /\ ProdHeld =>
         /\ prod.len = lfq_queue_get_push_buf_len(SameLfq, prod.head)
         /\ prod.off = lfq_queue_get_push_buf_off(SameLfq)
    /\ ConsHeld =>
         /\ cons.len = lfq_queue_get_pop_buf_len(SameLfq, cons.tail)
         /\ cons.off = lfq_queue_get_pop_buf_off(SameLfq)

\* C19 witness: both calls were made on a ring of capacity 2 whose tail has
\* crossed the end of size_t, so that lfq takes its else branches.
C19_Witness ==
    /\ ProdHeld /\ ConsHeld
    /\ Capacity = 2
    /\ q.tail < q.head
    /\ prod.len > 0 /\ cons.len > 0
    /\ (q.tail \div Capacity) # (q.head \div Capacity)

\* cursors a and b lie in the same block of capacity bytes
SameBlock(a, b) == (a \div Capacity) = (b \div Capacity)

\* C20: the cond that bq_pushbuf computes from its tail and the head it
\* loaded, and the cond that bq_popbuf computes from its head and the tail
\* it loaded, is 0 when the two cursors lie in the same block of capacity
\* bytes and 1 when they do not.
C20_EpochBit ==
    /\ ProdHeld =>
         bq_cond(q.cap_lg2, prod.head, q.tail)
           = (IF SameBlock(prod.head, q.tail) THEN 0 ELSE 1)
    /\ ConsHeld =>
         bq_cond(q.cap_lg2, q.head, cons.tail)
           = (IF SameBlock(q.head, cons.tail) THEN 0 ELSE 1)

\* C20 witness: on a ring of capacity 4, head is in the last block of size_t
\* and the tail bq_popbuf loaded has wrapped into the first one; cond is 1.
C20_Witness ==
    /\ ConsHeld /\ ProdHeld
    /\ Capacity = 4
    /\ q.head \div Capacity = (WordMod \div Capacity) - 1
    /\ cons.tail \div Capacity = 0
    /\ bq_cond(q.cap_lg2, q.head, cons.tail) = 1
    /\ Used > 0

\* the abq that stands in the relation of C21 to the bq
AbqOf(bq) ==
    [head |-> BitAnd(bq.head, bq.mask), tail |-> BitAnd(bq.tail, bq.mask),
     nelem |-> Wrap(bq.tail - bq.head), size |-> bq.mask + 1]

\* C21: an abq of the bq's capacity that is given the calls the bq is given
\* stays the abq with head = bq.head & mask, tail = bq.tail & mask and
\* nelem = bq.tail - bq.head: abq_queue_init yields it for the bq that bq_make
\* yields, abq_queue_commit_push and abq_queue_commit_pop take it from the
\* one of the bq before bq_push and bq_pop to the one of the bq after, and
\* each call of bq_pushbuf and bq_popbuf returns the offset and the length
\* that abq_queue_get_push_buf and abq_queue_get_pop_buf return on it.
C21_AbqEquivalence ==
    /\ abq_queue_init(Capacity) = AbqOf(q)
    /\ [][/\ PushReturns =>
               abq_queue_commit_push(AbqOf(q), prod.count) = AbqOf(q')
          /\ PopReturns =>
               abq_queue_commit_pop(AbqOf(q), cons.count) = AbqOf(q')
          /\ ~(PushReturns \/ PopReturns) => AbqOf(q') = AbqOf(q)
          /\ PushbufReturns =>
               /\ prod'.len = abq_queue_get_push_buf_len(AbqOf(q))
               /\ prod'.off = abq_queue_get_push_buf_off(AbqOf(q))
          /\ PopbufReturns =>
               /\ cons'.len = abq_queue_get_pop_buf_len(AbqOf(q))
               /\ cons'.off = abq_queue_get_pop_buf_off(AbqOf(q))]_vars

\* C21 witness: on a ring of capacity 4 whose cursors have both passed the
\* end of the storage, tail has wrapped in size_t, the abq is in its else
\* branch (head >= tail, nelem > 0) and both threads hold a non-empty slice.
C21_Witness ==
    /\ Capacity = 4
    /\ q.tail < q.head
    /\ AbqOf(q).head >= AbqOf(q).tail /\ AbqOf(q).nelem > 0
    /\ ProdHeld /\ prod.head = q.head /\ prod.len > 0
    /\ ConsHeld /\ cons.tail = q.tail /\ cons.len > 0

\* C22: bq_push(count) and bq_pop(count) return to their caller for every
\* count a size_t can hold, also one greater than the length last returned,
\* and move tail, respectively head, by exactly count in size_t; they change
\* nothing else of the queue.
C22_NoValidation ==
    [][/\ PushReturns =>
            /\ q' = [q EXCEPT !.tail = (q.tail + prod'.count) % WordMod]
            /\ prod'.pc = "finish"
       /\ PopReturns =>
            /\ q' = [q EXCEPT !.head = (q.head + cons'.count) % WordMod]
            /\ cons'.pc = "wait"]_vars

\* C22 witness: bq_push has returned from a call whose count exceeded the
\* length bq_pushbuf had returned, and tail - head is above the capacity.
C22_Witness ==
    /\ prod.pc = "finish"
    /\ prod.count > prod.len
    /\ cons.pc = "popbuf"
    /\ Used > Capacity

\* C23: tail is the number of bytes the producer has committed since bq_make,
\* modulo 2^w, and head is the number of bytes the consumer has committed,
\* modulo 2^w, so that neither is ever reset or kept modulo the capacity;
\* the slices handed out start at tail & mask and at head & mask.
C23_CursorTotals ==
    /\ q.tail = Len(produced) % WordMod
    /\ q.head = PoppedTotal % WordMod
    /\ ProdHeld => prod.off = BitAnd(Len(produced) % WordMod, q.mask)
    /\ ConsHeld => cons.off = BitAnd(PoppedTotal % WordMod, q.mask)

\* C23 witness: on a ring of capacity 4 the producer has committed more
\* than 2^w bytes, the consumer more than the capacity and fewer than 2^w,
\* head is stored above the mask, and both threads hold a slice.
C23_Witness ==
    /\ Capacity = 4
    /\ Len(produced) > WordMod
    /\ PoppedTotal > Capacity /\ PoppedTotal < WordMod
    /\ q.head > q.mask
    /\ q.tail < q.head
    /\ ProdHeld /\ prod.len > 0
    /\ ConsHeld /\ cons.len > 0

\* the queue after bq_pushbuf and bq_push of the whole length it returned
FilledOnce(bq) == bq_push(bq, bq_pushbuf_len(bq, bq.head))

\* the queue after bq_popbuf and bq_pop of the whole length it returned
DrainedOnce(bq) == bq_pop(bq, bq_popbuf_len(bq, bq.tail))

\* C24: when bq_push returns from committing the whole length of a
\* bq_pushbuf since which head has not moved, one more bq_pushbuf and bq_push
\* of the whole returned length, made while the consumer stands still, leave
\* tail - head equal to the capacity; when bq_pop returns from committing
\* the whole length of a bq_popbuf since which tail has not moved, one more
\* bq_popbuf and bq_pop of the whole returned length, made while the producer
\* stands still, leave head equal to tail.
C24_TwoCallsSuffice ==
    [][/\ (PushReturns /\ prod.count = prod.len /\ prod.head = q.head) =>
            Wrap(FilledOnce(q').tail - FilledOnce(q').head) = Capacity
       /\ (PopReturns /\ cons.count = cons.len /\ cons.tail = q.tail) =>
            DrainedOnce(q').head = DrainedOnce(q').tail]_vars

\* C24 witness: the producer has committed the whole non-zero length of a
\* bq_pushbuf, head has not moved since, and the ring is not yet full: tail
\* stands at the start of the storage and a second pair is needed.
C24_Witness ==
    /\ prod.pc = "pushbuf"
    /\ prod.len > 0 /\ prod.count = prod.len
    /\ prod.head = q.head
    /\ Len(produced) >= prod.count
    /\ BitAnd(q.tail, q.mask) = 0
    /\ Used < Capacity
    /\ FilledOnce(q).tail # q.tail

\* the consumer has committed the whole non-zero length of a bq_popbuf, tail
\* has not moved since, and the ring is not yet empty
C24_WitnessConsumer ==
    /\ cons.pc = "popbuf"
    /\ cons.len > 0 /\ cons.count = cons.len
    /\ cons.tail = q.tail
    /\ PoppedTotal >= cons.count
    /\ BitAnd(q.head, q.mask) = 0
    /\ Used > 0
    /\ DrainedOnce(q).head = q.tail

====
